---- MODULE Spec2Model ----
(***************************************************************************)
(* Model of src/server_mysql.py: the /api/items listing (api_items) and    *)
(* the /api/annotations batch save (api_annotations) over the MySQL tables *)
(* `full_table1` (items, read only) and `output` (annotation rows).        *)
(*                                                                         *)
(* Strings are sequences of one-character strings, so that strip(), TRIM,  *)
(* UPPER and lower() are computed and not assumed.  A nullable value is    *)
(* None (<<>>) or Some(v) (<<v>>).  String equality in the store is exact  *)
(* (a binary collation); identifiers are unique in `full_table1`.          *)
(***************************************************************************)
EXTENDS Integers, Sequences, FiniteSets, TLC

VARIABLES
    output,       \* the rows of table `output`
    tableExists,  \* whether table `output` has been created
    now,          \* the store's clock, read by NOW()
    reqs,         \* the /api/annotations requests: position in the handler, locals, response
    listing,      \* the /api/items response sent by the last step, with its cleaned
                  \* parameters (NoListing when the last step sent none)
    pages,        \* the pages the paging client has been served, in order
    clean         \* no row was written since the first page of `pages` was served

vars == <<output, tableExists, now, reqs, listing, pages, clean>>

-----------------------------------------------------------------------------
(* Values *)

None == <<>>
Some(v) == <<v>>
Val(o) == o[1]

\* Python: `x or y` on optional strings (None and "" are falsy)
Truthy(o) == o # None /\ Val(o) # <<>>
Or(a, b) == IF Truthy(a) THEN a ELSE b

\* the characters of the model, in collation order
Alphabet == <<" ", "-", "0", "1", "2", "3", "4", "5", "6", "7", "8", "9", "E", "N", "O",
              "S", "T", "U", "Y", "a", "b", "c", "d", "e", "h", "i", "n", "o", "r", "s",
              "t", "u", "x", "y">>

CharRank(c) == CHOOSE k \in 1..Len(Alphabet) : Alphabet[k] = c

Whitespace == {" "}

RECURSIVE LStrip(_)
LStrip(s) == IF s # <<>> /\ Head(s) \in Whitespace THEN LStrip(Tail(s)) ELSE s

RECURSIVE RStrip(_)
RStrip(s) ==
    IF s # <<>> /\ s[Len(s)] \in Whitespace THEN RStrip(SubSeq(s, 1, Len(s) - 1)) ELSE s

\* Python str.strip() and SQL TRIM()
Strip(s) == RStrip(LStrip(s))

UpperChar(c) ==
    CASE c = "e" -> "E" [] c = "n" -> "N" [] c = "o" -> "O" [] c = "s" -> "S"
      [] c = "t" -> "T" [] c = "u" -> "U" [] c = "y" -> "Y" [] OTHER -> c

LowerChar(c) ==
    CASE c = "E" -> "e" [] c = "N" -> "n" [] c = "O" -> "o" [] c = "S" -> "s"
      [] c = "T" -> "t" [] c = "U" -> "u" [] c = "Y" -> "y" [] OTHER -> c

\* SQL UPPER()
Upper(s) == [k \in 1..Len(s) |-> UpperChar(s[k])]

\* Python str.lower()
Lower(s) == [k \in 1..Len(s) |-> LowerChar(s[k])]

\* ORDER BY on a VARCHAR column: lexicographic in collation order
RECURSIVE StrLess(_, _)
StrLess(a, b) ==
    IF b = <<>> THEN FALSE
    ELSE IF a = <<>> THEN TRUE
    ELSE IF Head(a) = Head(b) THEN StrLess(Tail(a), Tail(b))
    ELSE CharRank(Head(a)) < CharRank(Head(b))

Min(a, b) == IF a < b THEN a ELSE b
Max(a, b) == IF a > b THEN a ELSE b

Digits == {"0", "1", "2", "3", "4", "5", "6", "7", "8", "9"}

DigitVal(c) == CharRank(c) - CharRank("0")

RECURSIVE DigitsVal(_)
DigitsVal(s) ==
    IF s = <<>> THEN 0 ELSE 10 * DigitsVal(SubSeq(s, 1, Len(s) - 1)) + DigitVal(s[Len(s)])

\* Python int(str): None when it raises ValueError
ParseInt(s) ==
    LET t == Strip(s)
        neg == t # <<>> /\ Head(t) = "-"
        d == IF neg THEN Tail(t) ELSE t
    IN  IF d = <<>> \/ \E k \in 1..Len(d) : d[k] \notin Digits THEN None
        ELSE Some(IF neg THEN 0 - DigitsVal(d) ELSE DigitsVal(d))

-----------------------------------------------------------------------------
(* The store *)

\* COALESCE(o_cnt.cnt, 0) < 3
Quota == 3

DefaultLimit == 30
MaxLimit == 1000

\* table `full_table1`: the items, owned by an external ingestion process
full_table1 ==
    { [id_oid |-> <<"1">>,      score_audio_input_text |-> Some(<<"h", "i">>)],
      [id_oid |-> <<"1", "0">>, score_audio_input_text |-> Some(<<"y", "o">>)],
      [id_oid |-> <<"2">>,      score_audio_input_text |-> Some(<<"N", "o", "n", "e">>)],
      [id_oid |-> <<"3">>,      score_audio_input_text |-> Some(<<"o", "h">>)],
      [id_oid |-> <<"4">>,      score_audio_input_text |-> None],
      [id_oid |-> <<"5">>,      score_audio_input_text |-> Some(<<" ">>)] }

\* SELECT id_$oid, COUNT(*) AS cnt FROM output GROUP BY id_$oid  (NULL when no row)
o_cnt(out, oid) ==
    LET n == Cardinality({o \in out : o.id_oid = oid})
    IN  IF n = 0 THEN None ELSE Some(n)

Coalesce(o, d) == IF o = None THEN d ELSE Val(o)

\* LEFT JOIN output o_user ON o_user.id_$oid = f.id_$oid AND o_user.username = %s
o_user(out, oid, username) ==
    LET m == {o \in out : o.id_oid = oid /\ o.username = username}
    IN  IF m = {} THEN None ELSE Some(CHOOSE o \in m : TRUE)

\* Where with the quota test off by one
Where_QuotaOffByOne(out, f, username, hide_confirmed) ==
    /\ f.score_audio_input_text # None
    /\ Strip(Val(f.score_audio_input_text)) # <<>>
    /\ Upper(Val(f.score_audio_input_text)) # <<"N", "O", "N", "E">>
    /\ Coalesce(o_cnt(out, f.id_oid), 0) <= Quota
    /\ hide_confirmed =>
          LET u == o_user(out, f.id_oid, username)
          IN  u = None \/ Val(u).confirmed # 1

\* Where with the filter hiding what any user has confirmed
Where_HideAnyConfirmed(out, f, username, hide_confirmed) ==
    /\ f.score_audio_input_text # None
    /\ Strip(Val(f.score_audio_input_text)) # <<>>
    /\ Upper(Val(f.score_audio_input_text)) # <<"N", "O", "N", "E">>
    /\ Coalesce(o_cnt(out, f.id_oid), 0) < Quota
    /\ hide_confirmed => \A o \in out : o.id_oid = f.id_oid => o.confirmed # 1

\* the WHERE clause of the listing query
Where(out, f, username, hide_confirmed) ==
    /\ f.score_audio_input_text # None
    /\ Strip(Val(f.score_audio_input_text)) # <<>>
    /\ Upper(Val(f.score_audio_input_text)) # <<"N", "O", "N", "E">>
    /\ Coalesce(o_cnt(out, f.id_oid), 0) < Quota
    /\ hide_confirmed =>
          LET u == o_user(out, f.id_oid, username)
          IN  u = None \/ Val(u).confirmed # 1

\* the joined row the query selects for item f
Joined(out, f, username) ==
    LET u == o_user(out, f.id_oid, username)
    IN  [id_oid |-> f.id_oid,
         score_audio_input_text |-> f.score_audio_input_text,
         saved_fix_text |-> IF u = None THEN None ELSE Some(Val(u).fix_text),
         saved_confirmed |-> IF u = None THEN None ELSE Some(Val(u).confirmed)]

\* ORDER BY f.id_$oid ASC
RECURSIVE OrderBy(_)
OrderBy(S) ==
    IF S = {} THEN <<>>
    ELSE LET m == CHOOSE r \in S : \A q \in S : ~StrLess(q.id_oid, r.id_oid)
         IN  <<m>> \o OrderBy(S \ {m})

\* LimitOffset with an end one row too far
LimitOffset_OneTooMany(rows, limit, offset) ==
    SubSeq(rows, offset + 1, Min(Len(rows), offset + limit + 1))

\* LimitOffset with the offset ignored
LimitOffset_IgnoreOffset(rows, limit, offset) == SubSeq(rows, 1, Min(Len(rows), limit))

\* LIMIT limit OFFSET offset
LimitOffset(rows, limit, offset) == SubSeq(rows, offset + 1, Min(Len(rows), offset + limit))

\* the listing query, lines 141-155
Select(out, username, hide_confirmed, limit, offset) ==
    LimitOffset(
        OrderBy({Joined(out, f, username) :
                    f \in {g \in full_table1 : Where(out, g, username, hide_confirmed)}}),
        limit, offset)

\* Enrich without the backfill of the saved correction
Enrich_NoBackfill(r) ==
    [id |-> r.id_oid,
     inputText |-> Val(Or(r.score_audio_input_text, Some(<<>>))),
     fixText |-> Val(Or(r.score_audio_input_text, Some(<<>>))),
     confirmed |-> IF r.saved_confirmed # None THEN Val(r.saved_confirmed) # 0 ELSE FALSE]

\* Enrich with a saved text overriding the raw text even when it is empty
Enrich_EmptyOverrides(r) ==
    [id |-> r.id_oid,
     inputText |-> Val(Or(r.score_audio_input_text, Some(<<>>))),
     fixText |-> IF r.saved_fix_text # None THEN Val(r.saved_fix_text)
                 ELSE Val(Or(r.score_audio_input_text, Some(<<>>))),
     confirmed |-> IF r.saved_confirmed # None THEN Val(r.saved_confirmed) # 0 ELSE FALSE]

\* the item built from one result row, lines 166-196
Enrich(r) ==
    LET input_text == Val(Or(r.score_audio_input_text, Some(<<>>)))
        saved_fix == r.saved_fix_text
        saved_conf == r.saved_confirmed
    IN  [id |-> r.id_oid,
         inputText |-> input_text,
         fixText |-> IF saved_fix # None /\ Val(saved_fix) # <<>>
                     THEN Val(saved_fix) ELSE input_text,
         confirmed |-> IF saved_conf # None THEN Val(saved_conf) # 0 ELSE FALSE]

\* Upsert as a delete by item alone followed by an insert
Upsert_DeleteByItem(out, oid, username, fix_text, confirmed, ts) ==
    {o \in out : o.id_oid # oid}
        \cup {[id_oid |-> oid, username |-> username, fix_text |-> fix_text,
               confirmed |-> confirmed, timestamp |-> ts]}

\* Upsert as a plain INSERT into a table with no primary key
Upsert_Append(out, oid, username, fix_text, confirmed, ts) ==
    out \cup {[id_oid |-> oid, username |-> username, fix_text |-> fix_text,
               confirmed |-> confirmed, timestamp |-> ts]}

\* Upsert with PRIMARY KEY (id_$oid): a row of the item, of whichever user, is
\* updated in place
Upsert_KeyIsItem(out, oid, username, fix_text, confirmed, ts) ==
    IF \E o \in out : o.id_oid = oid
    THEN {IF o.id_oid = oid
          THEN [o EXCEPT !.fix_text = fix_text, !.confirmed = confirmed, !.timestamp = ts]
          ELSE o : o \in out}
    ELSE out \cup {[id_oid |-> oid, username |-> username, fix_text |-> fix_text,
                    confirmed |-> confirmed, timestamp |-> ts]}

\* Upsert whose ON DUPLICATE KEY UPDATE leaves `confirmed` out
Upsert_KeepConfirmed(out, oid, username, fix_text, confirmed, ts) ==
    IF \E o \in out : o.id_oid = oid /\ o.username = username
    THEN {IF o.id_oid = oid /\ o.username = username
          THEN [o EXCEPT !.fix_text = fix_text, !.timestamp = ts]
          ELSE o : o \in out}
    ELSE out \cup {[id_oid |-> oid, username |-> username, fix_text |-> fix_text,
                    confirmed |-> confirmed, timestamp |-> ts]}

\* Upsert whose ON DUPLICATE KEY UPDATE appends the text to the saved one
Upsert_Concat(out, oid, username, fix_text, confirmed, ts) ==
    IF \E o \in out : o.id_oid = oid /\ o.username = username
    THEN {IF o.id_oid = oid /\ o.username = username
          THEN [o EXCEPT !.fix_text = @ \o fix_text, !.confirmed = confirmed,
                         !.timestamp = ts]
          ELSE o : o \in out}
    ELSE out \cup {[id_oid |-> oid, username |-> username, fix_text |-> fix_text,
                    confirmed |-> confirmed, timestamp |-> ts]}

\* Upsert refusing a new row for an item that has reached the quota
Upsert_QuotaChecked(out, oid, username, fix_text, confirmed, ts) ==
    IF Cardinality({o \in out : o.id_oid = oid}) >= Quota
       /\ ~\E o \in out : o.id_oid = oid /\ o.username = username
    THEN out
    ELSE {o \in out : ~(o.id_oid = oid /\ o.username = username)}
            \cup {[id_oid |-> oid, username |-> username, fix_text |-> fix_text,
                   confirmed |-> confirmed, timestamp |-> ts]}

\* Upsert as INSERT IGNORE: a row that exists is kept as it is
Upsert_InsertIgnore(out, oid, username, fix_text, confirmed, ts) ==
    IF \E o \in out : o.id_oid = oid /\ o.username = username
    THEN out
    ELSE out \cup {[id_oid |-> oid, username |-> username, fix_text |-> fix_text,
                    confirmed |-> confirmed, timestamp |-> ts]}

\* INSERT ... ON DUPLICATE KEY UPDATE on PRIMARY KEY (id_$oid, username)
Upsert(out, oid, username, fix_text, confirmed, ts) ==
    {o \in out : ~(o.id_oid = oid /\ o.username = username)}
        \cup {[id_oid |-> oid, username |-> username, fix_text |-> fix_text,
               confirmed |-> confirmed, timestamp |-> ts]}

-----------------------------------------------------------------------------
(* Request parameters of /api/items, lines 128-138 *)

ArgLimit(q) ==
    LET l == IF q.limit = None THEN Some(DefaultLimit) ELSE ParseInt(Val(q.limit))
        o == IF q.offset = None THEN Some(0) ELSE ParseInt(Val(q.offset))
    IN  IF l = None \/ o = None THEN Max(1, Min(DefaultLimit, MaxLimit))
        ELSE Max(1, Min(Val(l), MaxLimit))

ArgOffset(q) ==
    LET l == IF q.limit = None THEN Some(DefaultLimit) ELSE ParseInt(Val(q.limit))
        o == IF q.offset = None THEN Some(0) ELSE ParseInt(Val(q.offset))
    IN  IF l = None \/ o = None THEN Max(0, 0) ELSE Max(0, Val(o))

ArgUsername(q) == Strip(Val(Or(q.username, Some(<<>>))))

ArgHideConfirmed(q) ==
    Lower(Val(Or(q.hideConfirmed, Some(<<"0">>))))
        \in {<<"1">>, <<"t", "r", "u", "e">>, <<"y", "e", "s">>}

-----------------------------------------------------------------------------
(* GET /api/items, lines 125-198 *)

NoListing == [sent |-> FALSE, username |-> <<>>, hide_confirmed |-> FALSE, limit |-> 1,
              offset |-> 0, ok |-> FALSE, status |-> 0, items |-> <<>>]

\* Respond with the query's exception propagating to the client
Respond_Propagating(ok) == [status |-> IF ok THEN 200 ELSE 500]

\* lines 163 and 198: both the fallback and the result are sent by jsonify, as
\* a normal response
Respond(ok) == [status |-> 200]

\* api_items recording, for the requesting user, a row of every item it serves
api_items_Recording(q, Up) ==
    \E created, connected \in Up :
        LET username == ArgUsername(q)
            hide_confirmed == ArgHideConfirmed(q)
            limit == ArgLimit(q)
            offset == ArgOffset(q)
            ok == connected /\ (tableExists \/ created)
            rows == IF ok THEN Select(output, username, hide_confirmed, limit, offset)
                    ELSE <<>>
        IN  /\ tableExists' = (tableExists \/ created)
            /\ listing' = [sent |-> TRUE, username |-> username,
                           hide_confirmed |-> hide_confirmed,
                           limit |-> limit, offset |-> offset, ok |-> ok,
                           status |-> Respond(ok).status,
                           items |-> [k \in 1..Len(rows) |-> Enrich(rows[k])]]
            /\ output' = output \cup
                    {[id_oid |-> rows[k].id_oid, username |-> username, fix_text |-> <<>>,
                      confirmed |-> 0, timestamp |-> now] :
                        k \in {n \in 1..Len(rows) : rows[n].saved_confirmed = None}}
            /\ UNCHANGED <<now, reqs>>

\* One request: _init (a failure of ensure_output_table is swallowed), the query
\* (one statement, so one snapshot of the store), and the response.  `created`
\* and `connected` are whether the two store round-trips succeed, drawn from
\* Up, the outcomes the environment allows; `ok` records
\* that the response is the query's result and not the fallback of line 163.
api_items(q, Up) ==
    \E created, connected \in Up :
        LET username == ArgUsername(q)
            hide_confirmed == ArgHideConfirmed(q)
            limit == ArgLimit(q)
            offset == ArgOffset(q)
            ok == connected /\ (tableExists \/ created)
            rows == IF ok THEN Select(output, username, hide_confirmed, limit, offset)
                    ELSE <<>>
        IN  /\ tableExists' = (tableExists \/ created)
            /\ listing' = [sent |-> TRUE, username |-> username,
                           hide_confirmed |-> hide_confirmed,
                           limit |-> limit, offset |-> offset, ok |-> ok,
                           status |-> Respond(ok).status,
                           items |-> [k \in 1..Len(rows) |-> Enrich(rows[k])]]
            /\ UNCHANGED <<output, now, reqs>>

\* a request of no paging client
StrayListing(q, Up) == api_items(q, Up) /\ UNCHANGED <<pages, clean>>

\* what the paging client keeps of a response: its parameters and the
\* identifiers it lists, in order
PageOf(resp) ==
    [username |-> resp.username, hide_confirmed |-> resp.hide_confirmed,
     limit |-> resp.limit, offset |-> resp.offset, ok |-> resp.ok,
     ids |-> [k \in 1..Len(resp.items) |-> resp.items[k].id]]

\* The paging client: it asks for offset 0, then for the offset after the page
\* it was last served, with the same user, filter and limit.
PagedListing(q, Up) ==
    /\ \/ ArgOffset(q) = 0
       \/ /\ pages # <<>>
          /\ ArgUsername(q) = pages[Len(pages)].username
          /\ ArgHideConfirmed(q) = pages[Len(pages)].hide_confirmed
          /\ ArgLimit(q) = pages[Len(pages)].limit
          /\ ArgOffset(q) = pages[Len(pages)].offset + ArgLimit(q)
    /\ api_items(q, Up)
    /\ pages' = IF ArgOffset(q) = 0 THEN <<PageOf(listing')>>
                ELSE Append(pages, PageOf(listing'))
    /\ clean' = IF ArgOffset(q) = 0 THEN TRUE ELSE clean

-----------------------------------------------------------------------------
(* POST /api/annotations, lines 218-249 *)

\* the clock's last value
MaxTime == 1

\* `fault` records that a store round-trip of the request has raised
Idle == [pc |-> "idle", list |-> TRUE, items |-> <<>>, username |-> None,
         i |-> 1, saved |-> 0, status |-> 0, fault |-> FALSE]

\* an entry of the batch: a JSON object with these keys (None: key absent or null)
Entry(id, id_oid, fixText, fix_text, username, confirmed) ==
    [object |-> TRUE, id |-> id, id_oid |-> id_oid, fixText |-> fixText,
     fix_text |-> fix_text, username |-> username, confirmed |-> confirmed]

\* an entry that is not a JSON object (a string, a number, null, a list)
NotAnObject == [object |-> FALSE, id |-> None, id_oid |-> None, fixText |-> None,
                fix_text |-> None, username |-> None, confirmed |-> None]

\* EntryOid without the strip()
EntryOid_NoStrip(it) == Val(Or(Or(it.id, it.id_oid), Some(<<>>)))

\* EntryUsername with the envelope's username taking precedence over the entry's
EntryUsername_TopFirst(it, top_username) ==
    Strip(Val(Or(Or(Some(top_username), it.username), Some(<<>>))))

\* lines 238, 241-243: the values bound to the INSERT
EntryOid(it) == Strip(Val(Or(Or(it.id, it.id_oid), Some(<<>>))))
EntryFixText(it) == Val(Or(Or(it.fixText, it.fix_text), Some(<<>>)))
EntryUsername(it, top_username) ==
    Strip(Val(Or(Or(it.username, Some(top_username)), Some(<<>>))))
EntryConfirmed(it) == IF it.confirmed = Some(TRUE) THEN 1 ELSE 0

\* line 236
TopUsername(data) == Strip(Val(Or(data.username, Some(<<>>))))

\* Except as a handler inside the loop that swallows the error and goes on
Except_Continue(req, fault) == [req EXCEPT !.i = @ + 1, !.fault = fault]

\* lines 247-249: the exception handler ends the request with a 500
Except(req, fault) == [req EXCEPT !.pc = "done", !.status = 500, !.fault = fault]

\* lines 219-236: _init, the payload check, ensure_output_table() and get_conn()
api_annotations_begin(r, data, Up) ==
    /\ reqs[r].pc = "idle"
    /\ \E created, ensured, connected \in Up :
          LET received == [Idle EXCEPT !.pc = "loop", !.list = data.list,
                                       !.items = data.items,
                                       !.username = data.username]
          IN  /\ tableExists' = (tableExists \/ created \/ (data.list /\ ensured))
              /\ reqs' = [reqs EXCEPT ![r] =
                            IF ~data.list
                            THEN [received EXCEPT !.pc = "done", !.status = 400]
                            ELSE IF ~ensured \/ ~connected THEN Except(received, TRUE)
                            ELSE received]
    /\ listing' = NoListing
    /\ UNCHANGED <<output, now, pages, clean>>

\* lines 237-245: one iteration of the loop.  `executed` is whether cur.execute
\* returns; when it raises, `applied` is whether the store had committed the
\* statement before the connection failed.  NOW() is read at the write: the
\* clock has advanced by `dt`, drawn from Dt, since it was last read.
api_annotations_entry(r, Up, Dt) ==
    /\ reqs[r].pc = "loop"
    /\ reqs[r].i <= Len(reqs[r].items)
    /\ LET it == reqs[r].items[reqs[r].i]
           oid == EntryOid(it)
       IN  IF ~it.object
           THEN /\ reqs' = [reqs EXCEPT ![r] = Except(@, FALSE)]
                /\ UNCHANGED <<output, now, clean>>
           ELSE IF oid = <<>>
           THEN /\ reqs' = [reqs EXCEPT ![r].i = @ + 1]
                /\ UNCHANGED <<output, now, clean>>
           ELSE \E executed \in Up, applied \in BOOLEAN, dt \in Dt :
                   /\ executed => applied
                   /\ now + dt <= MaxTime
                   /\ ~applied => dt = 0
                   /\ now' = now + dt
                   /\ output' = IF applied
                                THEN Upsert(output, oid,
                                            EntryUsername(it, TopUsername(reqs[r])),
                                            EntryFixText(it), EntryConfirmed(it), now')
                                ELSE output
                   /\ clean' = (clean /\ ~applied)
                   /\ reqs' = IF executed
                              THEN [reqs EXCEPT ![r].i = @ + 1, ![r].saved = @ + 1]
                              ELSE [reqs EXCEPT ![r] = Except(@, TRUE)]
    /\ listing' = NoListing
    /\ UNCHANGED <<tableExists, pages>>

\* line 246: the loop is over
api_annotations_return(r) ==
    /\ reqs[r].pc = "loop"
    /\ reqs[r].i > Len(reqs[r].items)
    /\ reqs' = [reqs EXCEPT ![r].pc = "done", ![r].status = 200]
    /\ listing' = NoListing
    /\ UNCHANGED <<output, tableExists, now, pages, clean>>

-----------------------------------------------------------------------------
(* Inputs *)

NumRequests == 2
Reqs == 1..NumRequests

alice == <<"a">>
bob == <<"b">>
carol == <<"c">>
dave == <<"d">>
anonymous == <<>>

\* a request body {"items": [...], "username": ...}
Payload(items, username) == [list |-> TRUE, items |-> items, username |-> username]

\* a request body whose "items" is not a list
NotAList == [list |-> FALSE, items |-> <<>>, username |-> None]

\* a query string of /api/items
Query(username, limit, offset, hideConfirmed) ==
    [username |-> username, limit |-> limit, offset |-> offset,
     hideConfirmed |-> hideConfirmed]

\* {id, fixText, confirmed} sent under the envelope's username
Fix(id, text, confirmed) == Entry(Some(id), None, Some(text), None, None, Some(confirmed))

\* {id, fixText, confirmed, username}
FixBy(id, text, confirmed, username) ==
    Entry(Some(id), None, Some(text), None, Some(username), Some(confirmed))

-----------------------------------------------------------------------------
(* Specifications *)

Init ==
    /\ output = {}
    /\ tableExists \in BOOLEAN
    /\ now = 0
    /\ reqs = [r \in Reqs |-> Idle]
    /\ listing = NoListing
    /\ pages = <<>>
    /\ clean = FALSE

\* Up: the outcomes of a store round-trip (TRUE: it succeeds); Dt: the clock's
\* advances between two readings.
Next(Payloads, Queries, Up, Dt) ==
    \/ \E q \in Queries : StrayListing(q, Up)
    \/ \E r \in Reqs, data \in Payloads : api_annotations_begin(r, data, Up)
    \/ \E r \in Reqs : api_annotations_entry(r, Up, Dt)
    \/ \E r \in Reqs : api_annotations_return(r)

\* Annotators filling the quota of item "1", and listings by row holders,
\* by a user with no row and by the anonymous user.
QuotaPayloads ==
    { Payload(<<FixBy(<<"1">>, <<"x">>, TRUE, alice), FixBy(<<"1">>, <<"y">>, FALSE, bob),
                FixBy(<<" ", "1">>, <<"x">>, TRUE, carol), FixBy(<<"3">>, <<>>, TRUE, carol)>>,
              None),
      Payload(<<Fix(<<"1">>, <<"y">>, FALSE)>>, Some(alice)) }

QuotaQueries ==
    { Query(u, None, None, None) : u \in {None, Some(alice), Some(carol), Some(dave)} }

Spec == Init /\ [][Next(QuotaPayloads, QuotaQueries, BOOLEAN, {0})]_vars

\* Two annotators saving at once: the same key with different values, the same
\* item under another user, another item; the clock advances between writes.
SavePayloads ==
    { Payload(<<Fix(<<"1">>, <<"x">>, TRUE)>>, Some(alice)),
      Payload(<<Fix(<<"1">>, <<"y">>, FALSE)>>, Some(alice)),
      Payload(<<Fix(<<"1">>, <<"y">>, FALSE), Fix(<<"3">>, <<"x">>, TRUE)>>, Some(bob)) }

SaveQueries == { Query(Some(alice), None, None, None) }

SpecSave == Init /\ [][Next(SavePayloads, SaveQueries, BOOLEAN, {0, 1})]_vars

\* Batches with entries to skip (identifier empty, missing, blank), with the
\* alternative keys id_$oid and fix_text, and a body whose items is no list;
\* store round-trips may fail.
BatchPayloads ==
    { Payload(<<Fix(<<>>, <<"y">>, TRUE), Fix(<<"1">>, <<"x">>, TRUE),
                Fix(<<"3">>, <<"y">>, FALSE)>>, Some(alice)),
      Payload(<<Entry(None, None, Some(<<"x">>), None, None, Some(TRUE)),
                Fix(<<" ">>, <<"x">>, TRUE),
                Entry(Some(<<>>), Some(<<" ", "1">>), None, Some(<<"y">>), Some(bob), None)>>,
              Some(<<" ", "a">>)),
      NotAList }

BatchQueries == { Query(Some(bob), None, None, None) }

SpecBatch == Init /\ [][Next(BatchPayloads, BatchQueries, BOOLEAN, {0})]_vars

\* Saves under the envelope's user, under an entry's own user, under a blank
\* entry user and with no user at all; listings by row holders, by a user
\* with no row and by the anonymous user.
UsersPayloads ==
    { Payload(<<Fix(<<"1">>, <<"x">>, TRUE), FixBy(<<"1">>, <<"y">>, FALSE, bob),
                FixBy(<<"3">>, <<"x">>, TRUE, <<" ">>)>>, Some(alice)),
      Payload(<<Fix(<<"1">>, <<"y">>, TRUE)>>, None) }

UsersQueries ==
    { Query(u, None, None, None) : u \in {None, Some(alice), Some(bob), Some(dave)} }

SpecUsers == Init /\ [][Next(UsersPayloads, UsersQueries, BOOLEAN, {0})]_vars

\* Batches with a malformed entry among well-formed ones: an entry that is no
\* key/value object, an entry with no identifier.
MalformedPayloads ==
    { Payload(<<Fix(<<"1">>, <<"x">>, TRUE), NotAnObject, Fix(<<"3">>, <<"y">>, FALSE)>>,
              Some(alice)),
      Payload(<<Entry(None, None, Some(<<"x">>), None, None, Some(TRUE)),
                Fix(<<"3">>, <<"x">>, TRUE)>>, Some(bob)) }

MalformedQueries == { Query(Some(alice), None, None, None) }

SpecMalformed == Init /\ [][Next(MalformedPayloads, MalformedQueries, BOOLEAN, {0})]_vars

\* alice confirms item "3" and later saves it unconfirmed, bob confirms item
\* "1", alice saves item "10" unconfirmed; listings with the filter spelled
\* "1", "YES", "on" (no filter) or absent.
HidePayloads ==
    { Payload(<<Fix(<<"3">>, <<"x">>, TRUE), FixBy(<<"1">>, <<"y">>, TRUE, bob),
                Fix(<<"1", "0">>, <<"x">>, FALSE)>>, Some(alice)),
      Payload(<<Fix(<<"3">>, <<"x">>, FALSE)>>, Some(alice)) }

HideQueries ==
    { Query(Some(alice), None, None, h) :
        h \in {None, Some(<<"1">>), Some(<<"Y", "E", "S">>), Some(<<"o", "n">>)} }
        \cup { Query(Some(bob), None, None, Some(<<"t", "r", "u", "e">>)) }

SpecHide == Init /\ [][Next(HidePayloads, HideQueries, BOOLEAN, {0})]_vars

\* Four annotators who each list item "1" and save it: three in one batch
\* under their own names, the fourth in a request of his own.
OverPayloads ==
    { Payload(<<FixBy(<<"1">>, <<"x">>, TRUE, alice), FixBy(<<"1">>, <<"y">>, FALSE, bob),
                FixBy(<<"1">>, <<"x">>, FALSE, carol)>>, None),
      Payload(<<Fix(<<"1">>, <<"y">>, TRUE)>>, Some(dave)) }

OverQueries == { Query(Some(dave), None, None, None) }

SpecOver == Init /\ [][Next(OverPayloads, OverQueries, BOOLEAN, {0})]_vars

\* Batches with several entries of one key: the identifier and the user
\* spelled with and without blanks, the user given by the entry or the envelope.
DupPayloads ==
    { Payload(<<Fix(<<"1">>, <<"x">>, TRUE), Fix(<<" ", "1", " ">>, <<"y">>, FALSE),
                FixBy(<<"1">>, <<"x">>, FALSE, <<"a", " ">>)>>, Some(alice)),
      Payload(<<Fix(<<"3">>, <<"x">>, TRUE), Fix(<<"3">>, <<"y">>, TRUE)>>, Some(bob)) }

DupQueries == { Query(Some(alice), None, None, None) }

SpecDup == Init /\ [][Next(DupPayloads, DupQueries, BOOLEAN, {0})]_vars

\* Next, with a client that pages through the listing
NextPaged(Payloads, Queries, PagerQueries, Up, Dt) ==
    \/ Next(Payloads, Queries, Up, Dt)
    \/ \E q \in PagerQueries : PagedListing(q, Up)

\* A client paging with limit 1 (sent as 0) or 2, with and without the
\* hide_confirmed filter, while the store goes from empty to item "3"
\* confirmed by alice and item "1" at the quota.
PagesPayloads ==
    { Payload(<<Fix(<<"3">>, <<"x">>, TRUE), Fix(<<"1">>, <<"x">>, FALSE),
                FixBy(<<"1">>, <<"y">>, TRUE, bob), FixBy(<<"1">>, <<"y">>, TRUE, carol)>>,
              Some(alice)) }

PagesQueries == { Query(None, Some(<<"2">>), Some(<<"1">>), None) }

PagerQueries ==
    { Query(Some(alice), l, o, h) :
        l \in {Some(<<"0">>), Some(<<"2">>)},
        o \in {None, Some(<<"1">>), Some(<<"2">>), Some(<<"3">>), Some(<<"4">>)},
        h \in {None, Some(<<"T", "r", "u", "e">>)} }

SpecPages ==
    Init /\ [][NextPaged(PagesPayloads, PagesQueries, PagerQueries, {TRUE}, {0})]_vars

\* A store that comes and goes under a client paging with limit 2 and under
\* a save; the table `output` may be missing at the start.
OutagePayloads == { Payload(<<Fix(<<"1">>, <<"x">>, TRUE)>>, Some(alice)) }

OutageQueries == { Query(Some(alice), None, None, Some(<<"1">>)) }

OutagePagerQueries ==
    { Query(Some(alice), Some(<<"2">>), o, None) : o \in {None, Some(<<"2">>)} }

SpecOutage ==
    Init /\ [][NextPaged(OutagePayloads, OutageQueries, OutagePagerQueries, BOOLEAN, {0})]_vars

-----------------------------------------------------------------------------
(* Vocabulary of the properties *)

Users == {anonymous, alice, bob, carol, dave}

\* the annotation rows of an item, across users
RowsOf(out, oid) == {o \in out : o.id_oid = oid}

AnnotationCount(out, oid) == Cardinality(RowsOf(out, oid))

\* the rows of one (item, user) pair
RowsOfKey(out, oid, user) == {o \in out : o.id_oid = oid /\ o.username = user}

HasRow(out, oid, user) == RowsOfKey(out, oid, user) # {}

TheRow(out, oid, user) == CHOOSE o \in RowsOfKey(out, oid, user) : TRUE

\* the identifiers a response lists
ListedIds(resp) == {resp.items[k].id : k \in 1..Len(resp.items)}

\* source text that is not null, not blank and not the placeholder "NONE"
Usable(f) ==
    /\ f.score_audio_input_text # None
    /\ \E k \in 1..Len(Val(f.score_audio_input_text)) :
          Val(f.score_audio_input_text)[k] # " "
    /\ Lower(Val(f.score_audio_input_text)) # <<"n", "o", "n", "e">>

\* a response that is the result of its query, for a page that covers every item
WholeListing ==
    /\ listing.sent
    /\ listing.ok
    /\ listing.offset = 0
    /\ listing.limit >= Cardinality(full_table1)

-----------------------------------------------------------------------------
(* C1: a listing never returns an item that has 3 or more annotation rows  *)
(* across users when the listing is produced, whoever the requesting user  *)
(* is (a row holder, a user with no row, the anonymous user).              *)
C1_QuotaExcluded ==
    listing.sent => \A k \in 1..Len(listing.items) :
                        AnnotationCount(output, listing.items[k].id) < 3

\* three distinct users have saved item "1"; a fourth user's listing leaves it out
C1_Witness ==
    /\ WholeListing
    /\ listing.username = dave
    /\ {o.username : o \in RowsOf(output, <<"1">>)} = {alice, bob, carol}
    /\ <<"1">> \notin ListedIds(listing)
    /\ <<"3">> \in ListedIds(listing)

-----------------------------------------------------------------------------
(* C3, as stated: whenever user U has a row for an item with usable source *)
(* text, a listing for U that covers the item (hide_confirmed off) returns *)
(* it with the row's text and confirmed flag, also when the item has       *)
(* reached the quota.                                                      *)
C3_AsStated ==
    (WholeListing /\ ~listing.hide_confirmed) =>
        \A f \in full_table1 :
            (Usable(f) /\ HasRow(output, f.id_oid, listing.username)) =>
                \E k \in 1..Len(listing.items) :
                    /\ listing.items[k].id = f.id_oid
                    /\ listing.items[k].fixText =
                          TheRow(output, f.id_oid, listing.username).fix_text
                    /\ listing.items[k].confirmed =
                          (TheRow(output, f.id_oid, listing.username).confirmed = 1)

(* C3, amended: whenever user U has a row for an item with usable source   *)
(* text, a listing for U that covers the item (hide_confirmed off) returns *)
(* it exactly when the item has fewer than 3 rows across users, and then   *)
(* with the row's confirmed flag and with the row's text when that text is *)
(* not empty, the raw recognized text otherwise.                           *)
C3_Backfill ==
    (WholeListing /\ ~listing.hide_confirmed) =>
        \A f \in full_table1 :
            (Usable(f) /\ HasRow(output, f.id_oid, listing.username)) =>
                LET row == TheRow(output, f.id_oid, listing.username)
                IN  IF AnnotationCount(output, f.id_oid) < 3
                    THEN \E k \in 1..Len(listing.items) :
                            /\ listing.items[k].id = f.id_oid
                            /\ listing.items[k].fixText =
                                  IF row.fix_text # <<>> THEN row.fix_text
                                  ELSE Val(f.score_audio_input_text)
                            /\ listing.items[k].confirmed = (row.confirmed = 1)
                    ELSE f.id_oid \notin ListedIds(listing)

\* alice re-lists item "1", which she has saved and which is below the quota
C3_Witness ==
    /\ WholeListing
    /\ ~listing.hide_confirmed
    /\ listing.username = alice
    /\ HasRow(output, <<"1">>, alice)
    /\ AnnotationCount(output, <<"1">>) = 2
    /\ \E k \in 1..Len(listing.items) :
          /\ listing.items[k].id = <<"1">>
          /\ listing.items[k].fixText = <<"x">>
          /\ listing.items[k].confirmed

-----------------------------------------------------------------------------
(* C7: no step deletes an annotation row, so no item's cross-user count    *)
(* ever decreases, and an item whose count has reached 3 is never again    *)
(* selected by the listing query, for any user.                            *)
C7_OneWayGate ==
    [][ output' # output =>
          /\ \A o \in output : HasRow(output', o.id_oid, o.username)
          /\ \A f \in full_table1 :
                /\ AnnotationCount(output', f.id_oid) >= AnnotationCount(output, f.id_oid)
                /\ AnnotationCount(output, f.id_oid) >= 3 =>
                      \A u \in Users, h \in BOOLEAN :
                          LET rows == Select(output', u, h, MaxLimit, 0)
                          IN  \A k \in 1..Len(rows) : rows[k].id_oid # f.id_oid
      ]_vars

\* the gate of item "1" has closed and a row holder has listed after that
C7_Witness ==
    /\ AnnotationCount(output, <<"1">>) >= 3
    /\ WholeListing
    /\ listing.username = alice
    /\ <<"1">> \notin ListedIds(listing)
    /\ \E r \in Reqs : reqs[r].pc = "done" /\ reqs[r].status = 200 /\ reqs[r].saved = 1

-----------------------------------------------------------------------------
(* Vocabulary of the properties about saves *)

\* an entry that is a key/value object with a non-empty identifier after trimming
Valid(it) == it.object /\ EntryOid(it) # <<>>

\* the (item, user) key an entry of request r resolves to
KeyOf(r, j) ==
    <<EntryOid(reqs[r].items[j]),
      EntryUsername(reqs[r].items[j], TopUsername(reqs[r]))>>

\* the text and the flag an entry submits
SubmittedText(it) ==
    IF it.fixText # None THEN Val(it.fixText)
    ELSE IF it.fix_text # None THEN Val(it.fix_text) ELSE <<>>

SubmittedConfirmed(it) == IF it.confirmed = Some(TRUE) THEN 1 ELSE 0

ValidEntries(r) == {j \in 1..Len(reqs[r].items) : Valid(reqs[r].items[j])}

\* the keys request r targets (none while it has not been received)
Targets(r) == {KeyOf(r, j) : j \in ValidEntries(r)}

\* the entries of r whose statement has returned
Executed(r) == {j \in ValidEntries(r) : j < reqs[r].i}

\* the step just taken is a returned row write of request r
Wrote(r) == reqs[r].pc = "loop" /\ reqs'[r].saved = reqs[r].saved + 1

\* the store without the timestamps
Content(out) ==
    {[id_oid |-> o.id_oid, username |-> o.username, fix_text |-> o.fix_text,
      confirmed |-> o.confirmed] : o \in out}

-----------------------------------------------------------------------------
(* C2: the store holds at most one row per (item, user) pair in every      *)
(* reachable state, and a save for a key that has a row replaces that      *)
(* row's text, confirmed flag and timestamp without adding a row.          *)
C2_OneRowPerKey ==
    /\ [](\A o1, o2 \in output :
             (o1.id_oid = o2.id_oid /\ o1.username = o2.username) => o1 = o2)
    /\ [][\A r \in Reqs :
            (Wrote(r) /\ HasRow(output, KeyOf(r, reqs[r].i)[1], KeyOf(r, reqs[r].i)[2])) =>
                LET it == reqs[r].items[reqs[r].i]
                    key == KeyOf(r, reqs[r].i)
                IN  /\ Cardinality(output') = Cardinality(output)
                    /\ RowsOfKey(output', key[1], key[2]) =
                          {[id_oid |-> key[1], username |-> key[2],
                            fix_text |-> SubmittedText(it),
                            confirmed |-> SubmittedConfirmed(it),
                            timestamp |-> now']}
         ]_vars

\* two finished requests have saved the same key with different values, at
\* different times, and one row is left
C2_Witness ==
    \E r1, r2 \in Reqs :
        /\ r1 # r2
        /\ reqs[r1].pc = "done" /\ reqs[r1].status = 200
        /\ reqs[r2].pc = "done" /\ reqs[r2].status = 200
        /\ reqs[r1].items # reqs[r2].items
        /\ Targets(r1) = {<<<<"1">>, alice>>}
        /\ Targets(r2) = {<<<<"1">>, alice>>}
        /\ Cardinality(RowsOfKey(output, <<"1">>, alice)) = 1
        /\ TheRow(output, <<"1">>, alice).timestamp = 1

-----------------------------------------------------------------------------
(* C4: saving an entry whose key already holds the same text and confirmed *)
(* flag counts as one written entry and changes neither the set of rows    *)
(* nor their texts and flags, nor the number of rows; a finished save of   *)
(* one valid entry reports a written count of 1.                           *)
C4_Idempotent ==
    /\ [](\A r \in Reqs :
             (reqs[r].pc = "done" /\ reqs[r].status = 200
                /\ Len(reqs[r].items) = 1 /\ ValidEntries(r) = {1}) => reqs[r].saved = 1)
    /\ [][\A r \in Reqs :
            (/\ Wrote(r)
             /\ \E o \in output :
                   /\ <<o.id_oid, o.username>> = KeyOf(r, reqs[r].i)
                   /\ o.fix_text = SubmittedText(reqs[r].items[reqs[r].i])
                   /\ o.confirmed = SubmittedConfirmed(reqs[r].items[reqs[r].i]))
            => /\ Content(output') = Content(output)
               /\ Cardinality(output') = Cardinality(output)
               /\ Cardinality(RowsOfKey(output', KeyOf(r, reqs[r].i)[1],
                                        KeyOf(r, reqs[r].i)[2])) = 1
         ]_vars

\* the same one-entry batch has been saved twice, the second time later
C4_Witness ==
    \E r1, r2 \in Reqs :
        /\ r1 # r2
        /\ reqs[r1].pc = "done" /\ reqs[r1].status = 200 /\ reqs[r1].saved = 1
        /\ reqs[r2].pc = "done" /\ reqs[r2].status = 200 /\ reqs[r2].saved = 1
        /\ Len(reqs[r1].items) = 1
        /\ reqs[r1].items = reqs[r2].items
        /\ reqs[r1].username = reqs[r2].username
        /\ Cardinality(output) = 1
        /\ \A o \in output : o.timestamp = 1

-----------------------------------------------------------------------------
(* C5: an entry whose statement has returned, and whose key no other       *)
(* request and no later entry of its own batch targets, has its row in the *)
(* store with exactly the text and the flag it submitted, however the      *)
(* requests interleave (different users saving one item included).         *)
C5_NoLostUpdate ==
    \A r \in Reqs : \A j \in Executed(r) :
        (/\ \A r2 \in Reqs \ {r} : KeyOf(r, j) \notin Targets(r2)
         /\ \A j2 \in ValidEntries(r) : j2 > j => KeyOf(r, j2) # KeyOf(r, j))
        => \E o \in output :
              /\ RowsOfKey(output, KeyOf(r, j)[1], KeyOf(r, j)[2]) = {o}
              /\ o.fix_text = SubmittedText(reqs[r].items[j])
              /\ o.confirmed = SubmittedConfirmed(reqs[r].items[j])

\* alice and bob are both in the middle of saving item "1"; both rows are there
C5_Witness ==
    \E r1, r2 \in Reqs :
        /\ reqs[r1].pc = "loop" /\ reqs[r1].i = 2
        /\ reqs[r2].pc = "loop" /\ reqs[r2].i = 2
        /\ KeyOf(r1, 1) = <<<<"1">>, alice>>
        /\ KeyOf(r2, 1) = <<<<"1">>, bob>>
        /\ HasRow(output, <<"1">>, alice) /\ TheRow(output, <<"1">>, alice).fix_text = <<"x">>
        /\ HasRow(output, <<"1">>, bob) /\ TheRow(output, <<"1">>, bob).fix_text = <<"y">>
        /\ AnnotationCount(output, <<"1">>) = 2

-----------------------------------------------------------------------------
(* C6: however saves of one key interleave, the key has one row, whose     *)
(* text and confirmed flag are together those of one submitted entry, and  *)
(* each returned write leaves the row with exactly its own text, flag and  *)
(* time of write: the write applied last decides the row.                  *)
C6_LastWriterWins ==
    /\ [](\A o \in output :
             /\ RowsOfKey(output, o.id_oid, o.username) = {o}
             /\ \E r \in Reqs : \E j \in ValidEntries(r) :
                   /\ KeyOf(r, j) = <<o.id_oid, o.username>>
                   /\ o.fix_text = SubmittedText(reqs[r].items[j])
                   /\ o.confirmed = SubmittedConfirmed(reqs[r].items[j]))
    /\ [][\A r \in Reqs :
            Wrote(r) =>
                RowsOfKey(output', KeyOf(r, reqs[r].i)[1], KeyOf(r, reqs[r].i)[2]) =
                    {[id_oid |-> KeyOf(r, reqs[r].i)[1],
                      username |-> KeyOf(r, reqs[r].i)[2],
                      fix_text |-> SubmittedText(reqs[r].items[reqs[r].i]),
                      confirmed |-> SubmittedConfirmed(reqs[r].items[reqs[r].i]),
                      timestamp |-> now']}
         ]_vars

\* two requests of alice for item "1", with different values, have both written
\* and neither has returned
C6_Witness ==
    \E r1, r2 \in Reqs :
        /\ r1 # r2
        /\ reqs[r1].pc = "loop" /\ reqs[r1].i = 2
        /\ reqs[r2].pc = "loop" /\ reqs[r2].i = 2
        /\ Targets(r1) = {<<<<"1">>, alice>>}
        /\ Targets(r2) = {<<<<"1">>, alice>>}
        /\ SubmittedText(reqs[r1].items[1]) # SubmittedText(reqs[r2].items[1])
        /\ SubmittedConfirmed(reqs[r1].items[1]) # SubmittedConfirmed(reqs[r2].items[1])
        /\ Cardinality(output) = 1

-----------------------------------------------------------------------------
(* Vocabulary of the properties about pages *)

\* the items a listing for `user` is to offer: usable text, fewer than 3 rows
\* across users and, with the filter on, not confirmed by `user`
Eligible(out, user, hide) ==
    {f.id_oid : f \in {g \in full_table1 :
        /\ Usable(g)
        /\ AnnotationCount(out, g.id_oid) < 3
        /\ hide => ~(HasRow(out, g.id_oid, user) /\ TheRow(out, g.id_oid, user).confirmed = 1)}}

\* the identifiers of the pages served so far, in the order served
RECURSIVE Served(_)
Served(ps) ==
    IF ps = <<>> THEN <<>>
    ELSE Served(SubSeq(ps, 1, Len(ps) - 1)) \o ps[Len(ps)].ids

\* the client's pages are the results of their queries, on one unchanged store
QuietSession == pages # <<>> /\ clean /\ \A p \in 1..Len(pages) : pages[p].ok

-----------------------------------------------------------------------------
(* C8: with no write between the calls, the pages served for offsets       *)
(* 0, L, 2L, ... with one user, one filter and one limit L are, one after  *)
(* the other, the eligible items in ascending identifier order: n pages    *)
(* hold the first min(n*L, size) eligible items, none missing, none twice. *)
C8_PagesPartition ==
    QuietSession =>
        LET ids == Served(pages)
            E == Eligible(output, pages[1].username, pages[1].hide_confirmed)
        IN  /\ \A k \in 1..(Len(ids) - 1) : StrLess(ids[k], ids[k + 1])
            /\ \A k \in 1..Len(ids) : ids[k] \in E
            /\ \A e \in E : (\A k \in 1..Len(ids) : ids[k] # e) =>
                               \A k \in 1..Len(ids) : StrLess(ids[k], e)
            /\ Len(ids) = Min(Len(pages) * pages[1].limit, Cardinality(E))

\* alice has paged with limit 2 through the three eligible items, after a save
C8_Witness ==
    /\ QuietSession
    /\ output # {}
    /\ Len(pages) = 2
    /\ pages[1].limit = 2
    /\ Len(pages[1].ids) = 2
    /\ Len(pages[2].ids) = 1
    /\ Served(pages) = << <<"1">>, <<"1", "0">>, <<"3">> >>

-----------------------------------------------------------------------------
(* Vocabulary of the properties about batches *)

\* the identifier an entry carries: "id", or "id_$oid" when "id" is absent or empty
Identifier(it) == IF it.id # None /\ Val(it.id) # <<>> THEN it.id ELSE it.id_oid

\* the entry is an object whose identifier has a character that is no blank
HasIdentifier(it) ==
    /\ it.object
    /\ Identifier(it) # None
    /\ \E k \in 1..Len(Val(Identifier(it))) : Val(Identifier(it))[k] # " "

Identified(r) == {j \in 1..Len(reqs[r].items) : HasIdentifier(reqs[r].items[j])}

\* no other request targets the key of entry j of request r
OwnKey(r, j) == \A r2 \in Reqs \ {r} : KeyOf(r, j) \notin Targets(r2)

\* the row of the key of entry j holds what entry j submitted
RowAsSubmitted(r, j) ==
    \E o \in output :
        /\ RowsOfKey(output, KeyOf(r, j)[1], KeyOf(r, j)[2]) = {o}
        /\ o.fix_text = SubmittedText(reqs[r].items[j])
        /\ o.confirmed = SubmittedConfirmed(reqs[r].items[j])

-----------------------------------------------------------------------------
(* C9: a save that answers with a count answers with the number of its     *)
(* entries that have a non-blank identifier, not with the batch length;    *)
(* each of these entries has its row (the last one submitted for the key,  *)
(* when no other request targets the key), and no entry without such an    *)
(* identifier produces a row: every row has a trimmed, non-empty item      *)
(* identifier and the key of an identified entry of some request.          *)
C9_SavedCount ==
    /\ \A r \in Reqs :
          (reqs[r].pc = "done" /\ reqs[r].status = 200) =>
              /\ reqs[r].saved = Cardinality(Identified(r))
              /\ \A j \in Identified(r) :
                    (OwnKey(r, j) /\ \A j2 \in Identified(r) :
                                        j2 > j => KeyOf(r, j2) # KeyOf(r, j))
                    => RowAsSubmitted(r, j)
    /\ \A o \in output :
          /\ o.id_oid # <<>>
          /\ o.id_oid[1] # " " /\ o.id_oid[Len(o.id_oid)] # " "
          /\ \E r \in Reqs : \E j \in Identified(r) : KeyOf(r, j) = <<o.id_oid, o.username>>

\* the batch of one empty identifier and two valid entries has answered saved = 2
C9_Witness ==
    \E r \in Reqs :
        /\ reqs[r].pc = "done" /\ reqs[r].status = 200
        /\ Len(reqs[r].items) = 3
        /\ reqs[r].items[1].id = Some(<<>>)
        /\ reqs[r].saved = 2
        /\ Content(output) =
              {[id_oid |-> <<"1">>, username |-> alice, fix_text |-> <<"x">>, confirmed |-> 1],
               [id_oid |-> <<"3">>, username |-> alice, fix_text |-> <<"y">>, confirmed |-> 0]}

-----------------------------------------------------------------------------
(* C10: a request in which a store round-trip has raised has answered with *)
(* an error; when it raised at entry i, the entries after i have written   *)
(* no row and the entries before i keep their rows as submitted (for keys  *)
(* no other request and no entry up to the failing one targets again).     *)
C10_PrefixCommitted ==
    \A r \in Reqs :
        reqs[r].fault =>
            /\ reqs[r].pc = "done"
            /\ reqs[r].status = 500
            /\ \A j \in Identified(r) :
                  OwnKey(r, j) =>
                      /\ (/\ j < reqs[r].i
                          /\ \A j2 \in Identified(r) :
                                (j < j2 /\ j2 <= reqs[r].i) => KeyOf(r, j2) # KeyOf(r, j))
                         => RowAsSubmitted(r, j)
                      /\ (/\ j > reqs[r].i
                          /\ \A j2 \in Identified(r) :
                                j2 <= reqs[r].i => KeyOf(r, j2) # KeyOf(r, j))
                         => ~HasRow(output, KeyOf(r, j)[1], KeyOf(r, j)[2])

\* the write of the second valid entry has raised: the first one stays committed
C10_Witness ==
    \E r \in Reqs :
        /\ reqs[r].fault
        /\ reqs[r].i = 3
        /\ reqs[r].saved = 1
        /\ Identified(r) = {2, 3}
        /\ \A r2 \in Reqs \ {r} : reqs[r2].pc = "idle"
        /\ Content(output) =
              {[id_oid |-> <<"1">>, username |-> alice, fix_text |-> <<"x">>, confirmed |-> 1]}

-----------------------------------------------------------------------------
(* Vocabulary of the properties about users *)

\* the user an entry is saved under: its own user, else the request's default
\* user, trimmed
ResolvedUser(it, default) ==
    Strip(IF it.username # None /\ Val(it.username) # <<>> THEN Val(it.username)
          ELSE IF default # None THEN Val(default) ELSE <<>>)

\* what a listing for `user` shows of item f on store `out`: the text and the flag
Shown(out, f, user) ==
    LET e == Enrich(Joined(out, f, user))
    IN  [fixText |-> e.fixText, confirmed |-> e.confirmed]

\* the raw recognized text of item f, unconfirmed
Raw(f) == [fixText |-> Val(f.score_audio_input_text), confirmed |-> FALSE]

-----------------------------------------------------------------------------
(* C11: a step that changes the annotation rows is the write of one valid  *)
(* entry of one request, and it changes no row but the one keyed by the    *)
(* entry's trimmed identifier and resolved user (its own user, else the    *)
(* request's default user); so what a listing shows to any other user B of *)
(* any item is the same before and after, and is the raw text, unconfirmed,*)
(* when B has no row.                                                      *)
C11_Frame ==
    [][ output' # output =>
          \E r \in Reqs :
              /\ reqs[r].pc = "loop"
              /\ reqs'[r] # reqs[r]
              /\ reqs[r].i \in Identified(r)
              /\ LET it == reqs[r].items[reqs[r].i]
                     oid == Strip(Val(Identifier(it)))
                     user == ResolvedUser(it, reqs[r].username)
                 IN  /\ \A o \in output \cup output' :
                           (o.id_oid # oid \/ o.username # user) =>
                               (o \in output /\ o \in output')
                     /\ \A B \in Users \ {user} : \A f \in full_table1 :
                           Usable(f) =>
                               /\ Shown(output', f, B) = Shown(output, f, B)
                               /\ ~HasRow(output', f.id_oid, B) =>
                                     Shown(output', f, B) = Raw(f)
      ]_vars

\* alice and bob have each a row of item "1", written by one batch of alice's
\* under two users, and a blank entry user has put the row of item "3" under
\* the empty user; dave, who has no row, is listed the raw text
C11_Witness ==
    /\ Content(output) =
          {[id_oid |-> <<"1">>, username |-> alice, fix_text |-> <<"x">>, confirmed |-> 1],
           [id_oid |-> <<"1">>, username |-> bob, fix_text |-> <<"y">>, confirmed |-> 0],
           [id_oid |-> <<"3">>, username |-> anonymous, fix_text |-> <<"x">>, confirmed |-> 1]}
    /\ WholeListing
    /\ listing.username = dave
    /\ \E k \in 1..Len(listing.items) :
          /\ listing.items[k].id = <<"1">>
          /\ listing.items[k].fixText = <<"h", "i">>
          /\ ~listing.items[k].confirmed

-----------------------------------------------------------------------------
(* C12, as stated: a listing requested with an empty user shows every item *)
(* it returns with the item's raw recognized text and unconfirmed,         *)
(* whatever rows the store holds, rows saved with no user included.        *)
C12_AsStated ==
    (listing.sent /\ listing.username = anonymous) =>
        \A k \in 1..Len(listing.items) : \A f \in full_table1 :
            f.id_oid = listing.items[k].id =>
                /\ listing.items[k].fixText = Val(f.score_audio_input_text)
                /\ listing.items[k].confirmed = FALSE

-----------------------------------------------------------------------------
(* C13: a listing request, whatever its user, offset, limit and filter,    *)
(* leaves the annotation rows as they are, so being served an item adds    *)
(* nothing to the item's count; and a listing that follows a listing with  *)
(* the same parameters, no save step in between, both answered by the      *)
(* store, returns the same items.                                          *)
C13_ReadOnly ==
    [][ listing'.sent =>
          /\ output' = output
          /\ \A f \in full_table1 :
                AnnotationCount(output', f.id_oid) = AnnotationCount(output, f.id_oid)
          /\ (/\ listing.sent /\ listing.ok /\ listing'.ok
              /\ listing'.username = listing.username
              /\ listing'.hide_confirmed = listing.hide_confirmed
              /\ listing'.limit = listing.limit
              /\ listing'.offset = listing.offset)
             => listing'.items = listing.items
      ]_vars

\* alice has been served two pages, item "10" among them, since the last
\* write; the store holds the two rows the saves wrote and none of item "10"
C13_Witness ==
    /\ QuietSession
    /\ listing.sent
    /\ Len(pages) = 2
    /\ \E k \in 1..Len(Served(pages)) : Served(pages)[k] = <<"1", "0">>
    /\ Cardinality(output) = 2
    /\ AnnotationCount(output, <<"1", "0">>) = 0

-----------------------------------------------------------------------------
(* C14: a listing whose query the store does not answer (the store is      *)
(* unreachable, or the table is missing because the bootstrap failed too)  *)
(* is sent as a normal response holding the empty sequence, and changes    *)
(* neither the rows nor the save requests under way; every listing the     *)
(* store answers, after failed ones too, is a normal response holding the  *)
(* eligible items of its page, in ascending order.                         *)
C14_EmptyOnFailure ==
    /\ [](listing.sent => listing.status = 200)
    /\ []((listing.sent /\ ~listing.ok) => listing.items = <<>>)
    /\ []((listing.sent /\ listing.ok) =>
             LET E == Eligible(output, listing.username, listing.hide_confirmed)
             IN  /\ Len(listing.items) =
                       Max(0, Min(listing.limit, Cardinality(E) - listing.offset))
                 /\ \A k \in 1..Len(listing.items) :
                       /\ listing.items[k].id \in E
                       /\ Cardinality({e \in E : StrLess(e, listing.items[k].id)}) =
                             listing.offset + k - 1)
    /\ [][(listing'.sent /\ ~listing'.ok) => (output' = output /\ reqs' = reqs)]_vars

\* the client's first page failed and came back empty; its next page, at
\* offset 2, was answered and holds the third eligible item
C14_Witness ==
    /\ Len(pages) = 2
    /\ ~pages[1].ok /\ pages[1].ids = <<>>
    /\ pages[2].ok /\ pages[2].ids = << <<"3">> >>
    /\ listing.sent /\ listing.ok /\ listing.status = 200

-----------------------------------------------------------------------------
(* C15, as stated: a batch that is a list, and whose store round-trips all *)
(* succeed, is answered with the success count, whatever the shape of its  *)
(* entries: the count is the number of its well-formed entries, and each   *)
(* of them, before or after a malformed one, has its row (the last one     *)
(* submitted for a key no other request targets).                          *)
C15_AsStated ==
    \A r \in Reqs :
        (reqs[r].pc = "done" /\ reqs[r].list /\ ~reqs[r].fault) =>
            /\ reqs[r].status = 200
            /\ reqs[r].saved = Cardinality(Identified(r))
            /\ \A j \in Identified(r) :
                  (OwnKey(r, j) /\ \A j2 \in Identified(r) :
                                      j2 > j => KeyOf(r, j2) # KeyOf(r, j))
                  => RowAsSubmitted(r, j)

-----------------------------------------------------------------------------
(* C16: with hide_confirmed set, a listing for user U that covers every    *)
(* item returns an item exactly when its source text is usable, it has     *)
(* fewer than 3 rows across users, and U has no confirmed row of it: rows  *)
(* of other users, an unconfirmed row of U and no row of U do not hide it, *)
(* and it is returned again once U's row is saved unconfirmed.             *)
C16_HideConfirmed ==
    (WholeListing /\ listing.hide_confirmed) =>
        \A f \in full_table1 :
            f.id_oid \in ListedIds(listing) <=>
                /\ Usable(f)
                /\ AnnotationCount(output, f.id_oid) < 3
                /\ \A o \in output :
                      (o.id_oid = f.id_oid /\ o.username = listing.username) =>
                          o.confirmed = 0

\* alice had confirmed item "3" and has saved it again, unconfirmed: her
\* filtered listing returns it, with item "1" that bob confirmed and item
\* "10" that she saved unconfirmed
C16_Witness ==
    /\ WholeListing
    /\ listing.hide_confirmed
    /\ listing.username = alice
    /\ \A r \in Reqs : reqs[r].pc = "done" /\ reqs[r].status = 200
    /\ \E r \in Reqs : reqs[r].saved = 3
    /\ Content(output) =
          {[id_oid |-> <<"3">>, username |-> alice, fix_text |-> <<"x">>, confirmed |-> 0],
           [id_oid |-> <<"1">>, username |-> bob, fix_text |-> <<"y">>, confirmed |-> 1],
           [id_oid |-> <<"1", "0">>, username |-> alice, fix_text |-> <<"x">>, confirmed |-> 0]}
    /\ ListedIds(listing) = {<<"1">>, <<"1", "0">>, <<"3">>}

-----------------------------------------------------------------------------
(* C17: every item a listing for user U returns is shown with U's saved    *)
(* correction when U has a row of it whose text is not empty, and with the *)
(* raw recognized text otherwise (no row, or a row saved with empty text); *)
(* its confirmed flag is the one of U's row, and false when U has no row.  *)
C17_DisplayText ==
    (listing.sent /\ listing.ok) =>
        \A k \in 1..Len(listing.items) :
            LET item == listing.items[k]
                f == CHOOSE g \in full_table1 : g.id_oid = item.id
                mine == RowsOfKey(output, item.id, listing.username)
            IN  /\ \E g \in full_table1 : g.id_oid = item.id
                /\ mine = {} =>
                      /\ item.fixText = Val(f.score_audio_input_text)
                      /\ item.confirmed = FALSE
                /\ \A o \in mine :
                      /\ item.fixText = IF o.fix_text # <<>> THEN o.fix_text
                                        ELSE Val(f.score_audio_input_text)
                      /\ item.confirmed = (o.confirmed = 1)

\* carol has confirmed item "3" with an empty correction: her listing shows
\* its raw text, confirmed, and item "10", of which she has no row, raw and
\* unconfirmed
C17_Witness ==
    /\ listing.sent /\ listing.ok
    /\ listing.username = carol
    /\ HasRow(output, <<"3">>, carol)
    /\ TheRow(output, <<"3">>, carol).fix_text = <<>>
    /\ ~HasRow(output, <<"1", "0">>, carol)
    /\ \E k \in 1..Len(listing.items) :
          /\ listing.items[k].id = <<"3">>
          /\ listing.items[k].fixText = <<"o", "h">>
          /\ listing.items[k].confirmed
    /\ \E k \in 1..Len(listing.items) :
          /\ listing.items[k].id = <<"1", "0">>
          /\ listing.items[k].fixText = <<"y", "o">>
          /\ ~listing.items[k].confirmed

-----------------------------------------------------------------------------
(* C18: the write of a valid entry whose user has no row of the item adds  *)
(* the row and is counted, however many rows the item has, 3 or more       *)
(* included; so a save that answers with a count has a row for each of its *)
(* keys, and an item may hold more than 3 rows.                            *)
C18_SaveIgnoresQuota ==
    /\ [][\A r \in Reqs :
            (/\ reqs[r].pc = "loop"
             /\ reqs'[r].i = reqs[r].i + 1
             /\ reqs[r].i \in Identified(r)
             /\ ~HasRow(output, KeyOf(r, reqs[r].i)[1], KeyOf(r, reqs[r].i)[2]))
            => /\ reqs'[r].saved = reqs[r].saved + 1
               /\ HasRow(output', KeyOf(r, reqs[r].i)[1], KeyOf(r, reqs[r].i)[2])
               /\ AnnotationCount(output', KeyOf(r, reqs[r].i)[1]) =
                     AnnotationCount(output, KeyOf(r, reqs[r].i)[1]) + 1
         ]_vars
    /\ [](\A r \in Reqs :
             (reqs[r].pc = "done" /\ reqs[r].status = 200) =>
                 \A j \in Identified(r) : HasRow(output, KeyOf(r, j)[1], KeyOf(r, j)[2]))

\* alice, bob, carol and dave have each saved item "1", dave after it had
\* reached the quota or before: the four rows are all committed
C18_Witness ==
    /\ AnnotationCount(output, <<"1">>) = 4
    /\ {o.username : o \in RowsOf(output, <<"1">>)} = {alice, bob, carol, dave}
    /\ \A r \in Reqs : reqs[r].pc = "done" /\ reqs[r].status = 200
    /\ \E r \in Reqs : reqs[r].saved = 3
    /\ \E r \in Reqs : reqs[r].saved = 1

-----------------------------------------------------------------------------
(* C19: with hide_confirmed off, the pages one client is served for        *)
(* offsets 0, L, 2L, ... in that order hold no item twice, neither on two  *)
(* pages nor on one, whatever saves are applied between the page requests. *)
C19_NoDuplicates ==
    (pages # <<>> /\ ~pages[1].hide_confirmed) =>
        LET ids == Served(pages)
        IN  \A k1, k2 \in 1..Len(ids) : k1 # k2 => ids[k1] # ids[k2]

\* alice was served items "1" and "10" on her first page of 2; item "1" then
\* reached the quota, so her second page, at offset 2, is empty: item "3"
\* is still eligible and was skipped, and nothing was served twice
C19_Witness ==
    /\ ~clean
    /\ Len(pages) = 2
    /\ ~pages[1].hide_confirmed
    /\ pages[1].limit = 2
    /\ pages[1].ids = << <<"1">>, <<"1", "0">> >>
    /\ pages[2].ids = <<>>
    /\ AnnotationCount(output, <<"1">>) = 3
    /\ <<"3">> \in Eligible(output, alice, FALSE)

-----------------------------------------------------------------------------
(* C20: the entries of a batch are applied in batch order: while no store  *)
(* round-trip of the request has raised, the row of a key only this        *)
(* request targets holds the text and the flag of the last entry of that   *)
(* key among those already executed; and a save that answers with a count  *)
(* counts every valid entry, entries of one key each, so the count can     *)
(* exceed the number of rows the batch wrote.                              *)
C20_BatchOrder ==
    \A r \in Reqs :
        (reqs[r].pc # "idle" /\ reqs[r].list /\ ~reqs[r].fault) =>
            /\ \A j \in Identified(r) :
                  (/\ j < reqs[r].i
                   /\ OwnKey(r, j)
                   /\ \A j2 \in Identified(r) :
                         (j < j2 /\ j2 < reqs[r].i) => KeyOf(r, j2) # KeyOf(r, j))
                  => RowAsSubmitted(r, j)
            /\ reqs[r].saved = Cardinality({j \in Identified(r) : j < reqs[r].i})
            /\ (reqs[r].pc = "done" /\ reqs[r].status = 200) =>
                  reqs[r].saved = Cardinality(Identified(r))

\* a batch of three entries of the key (item "1", alice) has answered
\* saved = 3 and left one row, with the text and the flag of the third entry
C20_Witness ==
    \E r \in Reqs :
        /\ reqs[r].pc = "done" /\ reqs[r].status = 200
        /\ reqs[r].saved = 3
        /\ Cardinality({KeyOf(r, j) : j \in Identified(r)}) = 1
        /\ \A r2 \in Reqs \ {r} : reqs[r2].pc = "idle"
        /\ Content(output) =
              {[id_oid |-> <<"1">>, username |-> alice, fix_text |-> <<"x">>, confirmed |-> 0]}

====
